---- MODULE Spec2Model ----
(***************************************************************************)
(* Referral / affiliate backend: signup, order creation and the upline     *)
(* commission allocator, over the in-memory lists users, orders and        *)
(* commissions.                                                            *)
(*                                                                         *)
(* JavaScript values are represented as follows.                           *)
(*   - null, undefined and the empty string (all falsy) are Null           *)
(*   - a number is the 1-tuple <<n>>, NaN is the empty tuple <<>>          *)
(*   - percents are held in hundredths (0.10 is 10), so a commission       *)
(*     amount <<a * p>> is in hundredths of the order's unit:              *)
(*     <<1000>> is the JavaScript value 10.0 for an order of 100           *)
(* Arithmetic is exact: the rounding and underflow of IEEE doubles are not *)
(* represented.                                                            *)
(*                                                                         *)
(* A user is held with the fields the handlers read back (id, email, code, *)
(* referrerCode), an order with id, amount and code.  genCode is random    *)
(* and unchecked, so a new user may get any code, one already in use       *)
(* included.  resp is the response of the last request answered.  The      *)
(* handlers that only read these lists or write clicks (login, /me,        *)
(* /click, /stats) are left out.                                           *)
(***************************************************************************)
EXTENDS Integers, Sequences, FiniteSets, Bags, TLC

VARIABLES users, orders, commissions, inflight, resp

vars == <<users, orders, commissions, inflight, resp>>

\* ---------------------------------------------------------------- bounds
MaxUsers == 3
MaxOrders == 1

Null == "null"
Codes == {"AAA", "BBB", "CCC"}
Emails == {"a@x", "b@x"}

\* Request bodies of POST /auth/signup: the complete ones, and one body for
\* each required field left out.
SignupReqs ==
  [name : {"n"}, email : Emails, password : {"pw"}, ref : Codes \cup {Null}]
    \cup {[name |-> Null, email |-> "a@x", password |-> "pw", ref |-> Null],
          [name |-> "n", email |-> Null, password |-> "pw", ref |-> Null],
          [name |-> "n", email |-> "a@x", password |-> Null, ref |-> Null]}

\* Raw JSON values of the amount field: absent, a number, a string holding
\* the numeral n, a string that is not a numeral.
AmountInputs ==
  {[kind |-> "absent", n |-> 0], [kind |-> "number", n |-> 0],
   [kind |-> "number", n |-> 100], [kind |-> "number", n |-> -100],
   [kind |-> "numeral", n |-> 100], [kind |-> "text", n |-> 0]}

\* Request bodies of POST /order.
OrderReqs == [amount : AmountInputs, code : Codes \cup {Null}]

\* ---------------------------------------------------------------- config
COMMISSION_LEVELS == <<10, 5, 2>>

\* ---------------------------------------------------------------- values
NaN == <<>>

\* !amount
Falsy(raw) ==
  \/ raw.kind = "absent"
  \/ raw.kind = "number" /\ raw.n = 0

\* Number(amount)
Number(raw) == IF raw.kind = "text" THEN NaN ELSE <<raw.n>>

\* x * percent
Times(x, percent) == IF x = NaN THEN NaN ELSE <<x[1] * percent>>

\* x >= 0 in place of x > 0
Positive_NonNegative(x) == x # NaN /\ x[1] >= 0

\* x > 0
Positive(x) == x # NaN /\ x[1] > 0

\* COMMISSION_LEVELS[i] ?? (the last percent) in place of ?? 0
PercentAt_Clamped(i) ==
  IF i + 1 <= Len(COMMISSION_LEVELS) THEN COMMISSION_LEVELS[i + 1]
  ELSE COMMISSION_LEVELS[Len(COMMISSION_LEVELS)]

\* COMMISSION_LEVELS[i] ?? 0, i counted from 0
PercentAt(i) ==
  IF i + 1 <= Len(COMMISSION_LEVELS) THEN COMMISSION_LEVELS[i + 1] ELSE 0

\* ---------------------------------------------------------------- helpers
Undefined == [id |-> 0, email |-> Null, code |-> Null, referrerCode |-> Null]

\* users.find(u => u.code === code): the first match, or undefined
findUserByCode(code) ==
  IF \E i \in 1..Len(users) : users[i].code = code
  THEN users[CHOOSE i \in 1..Len(users) :
               /\ users[i].code = code
               /\ \A j \in 1..(i - 1) : users[j].code # code]
  ELSE Undefined

\* upline.push(referrer) placed before the if (!referrer) break
RECURSIVE UplineLoop_PushFirst(_, _, _, _)
UplineLoop_PushFirst(upline, currentCode, i, levels) ==
  IF i >= levels THEN upline
  ELSE IF currentCode = Null THEN upline
  ELSE LET referrer == findUserByCode(currentCode) IN
       IF referrer = Undefined THEN Append(upline, referrer)
       ELSE UplineLoop_PushFirst(Append(upline, referrer),
                                 referrer.referrerCode, i + 1, levels)

\* i <= levels in place of i < levels
RECURSIVE UplineLoop_OneMore(_, _, _, _)
UplineLoop_OneMore(upline, currentCode, i, levels) ==
  IF i > levels THEN upline
  ELSE IF currentCode = Null THEN upline
  ELSE LET referrer == findUserByCode(currentCode) IN
       IF referrer = Undefined THEN upline
       ELSE UplineLoop_OneMore(Append(upline, referrer),
                               referrer.referrerCode, i + 1, levels)

\* for (let i = 0; i < levels; i++) of buildUpline
RECURSIVE UplineLoop(_, _, _, _)
UplineLoop(upline, currentCode, i, levels) ==
  IF i >= levels THEN upline
  ELSE IF currentCode = Null THEN upline
  ELSE LET referrer == findUserByCode(currentCode) IN
       IF referrer = Undefined THEN upline
       ELSE UplineLoop(Append(upline, referrer), referrer.referrerCode,
                       i + 1, levels)

buildUpline(refCode, levels) == UplineLoop(<<>>, refCode, 0, levels)

\* ---------------------------------------------------------------- state
NoResp == [op |-> "none", status |-> 0, body |-> Null]

Init ==
  /\ users = <<>>
  /\ orders = <<>>
  /\ commissions = <<>>
  /\ inflight = EmptyBag
  /\ resp = NoResp

\* ---------------------------------------------------------------- signup
\* POST /auth/signup up to the await of bcrypt.hash
SignupBegin(req) ==
  /\ UNCHANGED <<users, orders, commissions>>
  /\ IF req.email = Null \/ req.password = Null \/ req.name = Null
     THEN /\ resp' = [op |-> "signup", status |-> 400,
                      body |-> "name, email & password required"]
          /\ UNCHANGED inflight
     ELSE IF \E i \in 1..Len(users) : users[i].email = req.email
     THEN /\ resp' = [op |-> "signup", status |-> 409, body |-> "email exists"]
          /\ UNCHANGED inflight
     ELSE /\ Len(users) + BagCardinality(inflight) < MaxUsers
          /\ inflight' = inflight (+) SetToBag({[email |-> req.email,
                                                 ref |-> req.ref]})
          /\ UNCHANGED resp

\* POST /auth/signup after the await: genCode, build the user, push, respond
SignupFinish(req, code) ==
  /\ BagIn(req, inflight)
  /\ LET user == [id |-> Len(users) + 1, email |-> req.email, code |-> code,
                  referrerCode |-> req.ref]
     IN /\ users' = Append(users, user)
        /\ resp' = [op |-> "signup", status |-> 200, body |-> user]
  /\ inflight' = inflight (-) SetToBag({req})
  /\ UNCHANGED <<orders, commissions>>

\* ---------------------------------------------------------------- order
\* COMMISSION_LEVELS[1] in place of COMMISSION_LEVELS[0]
L1Records_WrongIndex(order, owner) ==
  LET l1Percent == PercentAt(1)
      l1Amount == Times(order.amount, l1Percent)
  IN IF Positive(l1Amount)
     THEN <<[orderId |-> order.id, earnerUserId |-> owner.id, level |-> 1,
             percent |-> l1Percent, amount |-> l1Amount]>>
     ELSE <<>>

\* Level 0 (the code owner) earns L1 commission: the records pushed for it
L1Records(order, owner) ==
  LET l1Percent == PercentAt(0)
      l1Amount == Times(order.amount, l1Percent)
  IN IF Positive(l1Amount)
     THEN <<[orderId |-> order.id, earnerUserId |-> owner.id, level |-> 1,
             percent |-> l1Percent, amount |-> l1Amount]>>
     ELSE <<>>

\* COMMISSION_LEVELS[idx] in place of COMMISSION_LEVELS[idx + 1]
RECURSIVE UplineRecords_OffByOne(_, _, _)
UplineRecords_OffByOne(order, upline, idx) ==
  IF idx >= Len(upline) THEN <<>>
  ELSE LET level == idx + 2
           percent == PercentAt(idx)
           amt == Times(order.amount, percent)
           rest == UplineRecords_OffByOne(order, upline, idx + 1)
       IN IF Positive(amt)
          THEN <<[orderId |-> order.id, earnerUserId |-> upline[idx + 1].id,
                  level |-> level, percent |-> percent, amount |-> amt]>>
               \o rest
          ELSE rest

\* upline.forEach((uplineUser, idx) => ...): the records pushed from idx on
RECURSIVE UplineRecords(_, _, _)
UplineRecords(order, upline, idx) ==
  IF idx >= Len(upline) THEN <<>>
  ELSE LET level == idx + 2
           percent == PercentAt(idx + 1)
           amt == Times(order.amount, percent)
           rest == UplineRecords(order, upline, idx + 1)
       IN IF Positive(amt)
          THEN <<[orderId |-> order.id, earnerUserId |-> upline[idx + 1].id,
                  level |-> level, percent |-> percent, amount |-> amt]>>
               \o rest
          ELSE rest

\* { userId, level, amount } pushed to payouts with a commission record
Payout(c) == [userId |-> c.earnerUserId, level |-> c.level, amount |-> c.amount]

\* payouts.push left out of the forEach over the upline
PayoutsOf_OwnerOnly(records) ==
  [k \in 1..(IF Len(records) > 0 THEN 1 ELSE 0) |-> Payout(records[k])]

\* the payouts pushed alongside the commission records
PayoutsOf(records) == [k \in 1..Len(records) |-> Payout(records[k])]

\* The status POST /order answers: its two early returns, or 200
OrderStatus(req) ==
  IF Falsy(req.amount) \/ req.code = Null THEN 400
  ELSE IF findUserByCode(req.code) = Undefined THEN 404
  ELSE 200

\* POST /order
PostOrder(req) ==
  /\ UNCHANGED <<users, inflight>>
  /\ IF OrderStatus(req) = 400
     THEN /\ resp' = [op |-> "order", status |-> 400,
                      body |-> "amount & code required"]
          /\ UNCHANGED <<orders, commissions>>
     ELSE IF OrderStatus(req) = 404
       THEN /\ resp' = [op |-> "order", status |-> 404,
                        body |-> "Referral code not found"]
            /\ UNCHANGED <<orders, commissions>>
       ELSE LET owner == findUserByCode(req.code)
                order == [id |-> Len(orders) + 1,
                          amount |-> Number(req.amount), code |-> req.code]
                upline == buildUpline(owner.referrerCode,
                                      Len(COMMISSION_LEVELS))
                records == L1Records(order, owner)
                             \o UplineRecords(order, upline, 0)
            IN /\ Len(orders) < MaxOrders
               /\ orders' = Append(orders, order)
               /\ commissions' = commissions \o records
               /\ resp' = [op |-> "order", status |-> 200,
                           body |-> [orderId |-> order.id,
                                     amount |-> order.amount,
                                     code |-> req.code,
                                     payouts |-> PayoutsOf(records)]]

\* ---------------------------------------------------------------- system
Signup == \E req \in SignupReqs : SignupBegin(req)

Hashed == \E req \in BagToSet(inflight) : \E code \in Codes : SignupFinish(req, code)

Order == \E req \in OrderReqs : PostOrder(req)

Next == Signup \/ Hashed \/ Order

Spec == Init /\ [][Next]_vars

\* ================================================================ claims
\* The last request answered was a POST /order answered 200.
Accepted == resp.op = "order" /\ resp.status = 200

\* The order that request created, its payouts, and its code owner.
RespOrder == orders[resp.body.orderId]

RespPayouts == resp.body.payouts

HasUser(code) == code # Null /\ \E i \in 1..Len(users) : users[i].code = code

UserWithCode(code) ==
  users[CHOOSE i \in 1..Len(users) :
          /\ users[i].code = code
          /\ \A j \in 1..(i - 1) : users[j].code # code]

RespOwner == UserWithCode(RespOrder.code)

IsPositive(x) == x # <<>> /\ x[1] > 0

\* The amount field of a request body is present and truthy.
TruthyAmount(raw) ==
  \/ raw.kind \in {"numeral", "text"}
  \/ raw.kind = "number" /\ raw.n # 0

PayoutEntry(user, level, amount, percent) ==
  [userId |-> user.id, level |-> level, amount |-> <<amount[1] * percent>>]

RecordEntry(orderId, user, level, amount, percent) ==
  [orderId |-> orderId, earnerUserId |-> user.id, level |-> level,
   percent |-> percent, amount |-> <<amount[1] * percent>>]

RecordsOfOrder(orderId) == SelectSeq(commissions, LAMBDA c : c.orderId = orderId)

RECURSIVE SumAmounts(_)
SumAmounts(records) ==
  IF records = <<>> THEN 0
  ELSE Head(records).amount[1] + SumAmounts(Tail(records))

\* ---------------------------------------------------------------- C1
\* C1: an accepted order with a positive amount whose owner's referrerCode
\* resolves to R1 and R1's referrerCode resolves to R2 returns exactly the
\* three payouts (owner, 1, 10%), (R1, 2, 5%), (R2, 3, 2%), in this order.
C1_ThreeLevelPayouts ==
  (/\ Accepted
   /\ IsPositive(RespOrder.amount)
   /\ HasUser(RespOwner.referrerCode)
   /\ HasUser(UserWithCode(RespOwner.referrerCode).referrerCode))
  => LET R1 == UserWithCode(RespOwner.referrerCode)
         R2 == UserWithCode(R1.referrerCode)
     IN RespPayouts = <<PayoutEntry(RespOwner, 1, RespOrder.amount, 10),
                        PayoutEntry(R1, 2, RespOrder.amount, 5),
                        PayoutEntry(R2, 3, RespOrder.amount, 2)>>

\* The scenario A <- B <- C with an order of 100 on C's code.
C1_Witness ==
  /\ Accepted
  /\ Len(users) = 3
  /\ users[1].referrerCode = Null
  /\ users[2].referrerCode = users[1].code
  /\ users[3].referrerCode = users[2].code
  /\ Cardinality({users[i].code : i \in 1..3}) = 3
  /\ RespOrder.code = users[3].code
  /\ RespOrder.amount = <<100>>
  /\ RespPayouts = <<[userId |-> 3, level |-> 1, amount |-> <<1000>>],
                     [userId |-> 2, level |-> 2, amount |-> <<500>>],
                     [userId |-> 1, level |-> 3, amount |-> <<200>>]>>

\* ---------------------------------------------------------------- C2
\* C2 as stated: every accepted order has a level-1 payout to the code owner
\* of 10% of the amount, and a matching level-1 commission record in the log.
C2_Original ==
  Accepted =>
    /\ Len(RespPayouts) >= 1
    /\ RespPayouts[1].userId = RespOwner.id
    /\ RespPayouts[1].level = 1
    /\ \E k \in 1..Len(commissions) :
         /\ commissions[k].orderId = RespOrder.id
         /\ commissions[k].earnerUserId = RespOwner.id
         /\ commissions[k].level = 1

\* C2 as amended: an accepted order whose amount is a positive number has the
\* level-1 payout (owner, 1, 10% of the amount) first and the matching record
\* in the log; an accepted order whose amount is negative or NaN has no
\* payouts and no commission records.
C2_LevelOneWhenPositive ==
  Accepted =>
    IF IsPositive(RespOrder.amount)
    THEN /\ Len(RespPayouts) >= 1
         /\ RespPayouts[1] = PayoutEntry(RespOwner, 1, RespOrder.amount, 10)
         /\ \E k \in 1..Len(commissions) :
              commissions[k] =
                RecordEntry(RespOrder.id, RespOwner, 1, RespOrder.amount, 10)
    ELSE /\ RespPayouts = <<>>
         /\ RecordsOfOrder(RespOrder.id) = <<>>

C2_Witness ==
  /\ Accepted
  /\ IsPositive(RespOrder.amount)
  /\ Len(RespPayouts) >= 1
  /\ RespPayouts[1].userId = RespOwner.id
  /\ RecordsOfOrder(RespOrder.id) # <<>>

\* ---------------------------------------------------------------- C3
\* The owner designated by a request has no referrer, or a referrer code
\* that no user carries.
NoUpline(owner) == ~HasUser(owner.referrerCode)

\* What C3 is about: a request with a truthy amount and a code whose owner
\* has no upline.
C3_Case(req) ==
  /\ TruthyAmount(req.amount)
  /\ HasUser(req.code)
  /\ NoUpline(UserWithCode(req.code))

\* C3 as stated: such a request is answered 200, and the order it creates
\* has exactly one payout (level 1, the owner) and exactly one commission
\* record.
C3_Original ==
  /\ \A req \in OrderReqs : C3_Case(req) => OrderStatus(req) = 200
  /\ (Accepted /\ NoUpline(RespOwner)) =>
       /\ Len(RespPayouts) = 1
       /\ RespPayouts[1].level = 1
       /\ RespPayouts[1].userId = RespOwner.id
       /\ Len(RecordsOfOrder(RespOrder.id)) = 1

\* C3 as amended: such a request is answered 200; when its amount is a
\* positive number the payouts are exactly the level-1 entry of the owner
\* and exactly that one record is logged for the order; when its amount is
\* negative or NaN the payouts are empty and no record is logged.
C3_OwnerOnlyWhenPositive ==
  /\ \A req \in OrderReqs : C3_Case(req) => OrderStatus(req) = 200
  /\ (Accepted /\ NoUpline(RespOwner)) =>
       IF IsPositive(RespOrder.amount)
       THEN /\ RespPayouts = <<PayoutEntry(RespOwner, 1, RespOrder.amount, 10)>>
            /\ RecordsOfOrder(RespOrder.id) =
                 <<RecordEntry(RespOrder.id, RespOwner, 1, RespOrder.amount, 10)>>
       ELSE /\ RespPayouts = <<>>
            /\ RecordsOfOrder(RespOrder.id) = <<>>

\* An order was accepted for an owner whose referrer code is dangling, and
\* paid the owner alone.
C3_Witness ==
  /\ Accepted
  /\ RespOwner.referrerCode # Null
  /\ NoUpline(RespOwner)
  /\ Len(RespPayouts) = 1
  /\ Len(RecordsOfOrder(RespOrder.id)) = 1

\* ---------------------------------------------------------------- C4
\* C4: POST /order answers 400 when amount or code is missing and 404 when
\* the code resolves to no user, leaving orders and commissions as they
\* were, and never rejects a request whose amount and code are present and
\* whose code resolves.
C4_Original ==
  [][\A req \in OrderReqs :
       (resp'.op = "order" /\ PostOrder(req)) =>
         LET missing == req.amount.kind = "absent" \/ req.code = Null
         IN /\ missing => resp'.status = 400
            /\ (~HasUser(req.code) /\ resp'.status # 400) => resp'.status = 404
            /\ resp'.status \in {400, 404} => UNCHANGED <<orders, commissions>>
            /\ (~missing /\ HasUser(req.code)) => resp'.status = 200]_vars

\* ---------------------------------------------------------------- C5
\* C5: after an accepted order the last records of the commission log are,
\* entry by entry and in the same order, the returned payouts (same earner,
\* level and amount, orderId of the new order), no other record carries that
\* orderId, and the payouts are in strictly ascending level order from 1.
C5_LogMatchesPayouts ==
  Accepted =>
    LET n == Len(RespPayouts)
        m == Len(commissions)
    IN /\ n <= m
       /\ \A k \in 1..n :
            /\ commissions[m - n + k].orderId = resp.body.orderId
            /\ commissions[m - n + k].earnerUserId = RespPayouts[k].userId
            /\ commissions[m - n + k].level = RespPayouts[k].level
            /\ commissions[m - n + k].amount = RespPayouts[k].amount
       /\ \A k \in 1..(m - n) : commissions[k].orderId # resp.body.orderId
       /\ n >= 1 => RespPayouts[1].level = 1
       /\ \A k \in 1..(n - 1) : RespPayouts[k].level < RespPayouts[k + 1].level

C5_Witness ==
  /\ Accepted
  /\ Len(RespPayouts) = 3
  /\ Len(RecordsOfOrder(resp.body.orderId)) = 3

\* ---------------------------------------------------------------- C6
\* C6: the commission log holds at most one record per (orderId,
\* earnerUserId) pair.
C6_Original ==
  \A i, j \in 1..Len(commissions) :
    (i # j /\ commissions[i].orderId = commissions[j].orderId)
      => commissions[i].earnerUserId # commissions[j].earnerUserId

\* ---------------------------------------------------------------- C7
\* C7: no two entries of the users list have the same email.
C7_Original ==
  \A i, j \in 1..Len(users) : i # j => users[i].email # users[j].email

\* ---------------------------------------------------------------- C8
\* C8: every commission record has an amount > 0 that equals the amount of
\* the order it references times the percent of its level (10, 5, 2), and
\* no record has a level beyond the schedule.
C8_PositiveScheduledAmounts ==
  \A k \in 1..Len(commissions) :
    LET c == commissions[k] IN
      /\ c.amount # <<>>
      /\ c.amount[1] > 0
      /\ c.level \in 1..3
      /\ c.orderId \in 1..Len(orders)
      /\ orders[c.orderId].amount # <<>>
      /\ c.amount[1] = orders[c.orderId].amount[1] * <<10, 5, 2>>[c.level]
      /\ c.percent = <<10, 5, 2>>[c.level]

\* An order was accepted whose owner has a third ancestor, beyond the
\* schedule, and three records were written for it.
C8_Witness ==
  /\ Accepted
  /\ HasUser(RespOwner.referrerCode)
  /\ HasUser(UserWithCode(RespOwner.referrerCode).referrerCode)
  /\ HasUser(UserWithCode(UserWithCode(RespOwner.referrerCode).referrerCode)
               .referrerCode)
  /\ Len(RecordsOfOrder(RespOrder.id)) = 3

\* ---------------------------------------------------------------- C9
\* The upline list POST /order built for the order just accepted.
RespUpline == buildUpline(RespOwner.referrerCode, Len(COMMISSION_LEVELS))

\* C9 as stated: the upline list built for an order never holds more than
\* levels - 1 = 2 ancestors.
C9_Original == Accepted => Len(RespUpline) <= Len(COMMISSION_LEVELS) - 1

\* C9 as amended: the upline list built for an order never holds more than
\* levels = 3 ancestors, and it holds the owner's nearest ancestors in
\* order, as far as the referrer codes resolve.
C9_UplineAtMostLevels ==
  Accepted =>
    /\ Len(RespUpline) <= 3
    /\ \A k \in 1..Len(RespUpline) :
         LET code == IF k = 1 THEN RespOwner.referrerCode
                     ELSE RespUpline[k - 1].referrerCode
         IN HasUser(code) /\ RespUpline[k] = UserWithCode(code)
    /\ Len(RespUpline) < 3 =>
         LET last == IF Len(RespUpline) = 0 THEN RespOwner.referrerCode
                     ELSE RespUpline[Len(RespUpline)].referrerCode
         IN ~HasUser(last)

C9_Witness == Accepted /\ Len(RespUpline) = 3

\* ---------------------------------------------------------------- C10
\* The parts of C10 that do not depend on the order's amount: every record
\* has a level in {1,2,3} and the orderId of an existing order, and an order
\* has at most one record per level, hence at most 3 records.
C10_LevelCap ==
  /\ \A k \in 1..Len(commissions) :
       /\ commissions[k].level \in {1, 2, 3}
       /\ commissions[k].orderId \in 1..Len(orders)
  /\ \A i, j \in 1..Len(commissions) :
       (i # j /\ commissions[i].orderId = commissions[j].orderId)
         => commissions[i].level # commissions[j].level
  /\ \A o \in 1..Len(orders) : Len(RecordsOfOrder(o)) <= 3

\* C10 as stated: the level cap, and for every order the amounts of its
\* records sum to at most 17% of the order amount (a comparison with NaN is
\* false, as in JavaScript).
C10_Original ==
  /\ C10_LevelCap
  /\ \A o \in 1..Len(orders) :
       /\ orders[o].amount # <<>>
       /\ SumAmounts(RecordsOfOrder(o)) <= orders[o].amount[1] * 17

\* C10 as amended: the level cap; the amounts of the records of an order
\* with a positive amount sum to at most 17% of it, and an order whose
\* amount is negative or NaN has no records.
C10_LevelCapAndSum ==
  /\ C10_LevelCap
  /\ \A o \in 1..Len(orders) :
       IF IsPositive(orders[o].amount)
       THEN SumAmounts(RecordsOfOrder(o)) <= orders[o].amount[1] * 17
       ELSE RecordsOfOrder(o) = <<>>

\* An order on a referral cycle: three records, two of them for the same
\* earner.
C10_Witness ==
  \E o \in 1..Len(orders) :
    /\ Len(RecordsOfOrder(o)) = 3
    /\ \E i, j \in 1..3 :
         /\ i # j
         /\ RecordsOfOrder(o)[i].earnerUserId = RecordsOfOrder(o)[j].earnerUserId

====
